---- MODULE Spec2Model ----
(***************************************************************************)
(* A model of the SNES emulator core: the LoROM memory map                 *)
(* (src/src/memory_map.rs), the cartridge header decoder                   *)
(* (src/src/snes_header.rs), the 65C816 register file                      *)
(* (src/src/cpu/registers.rs) and the fetch / advance / execute cycle of   *)
(* the CPU (src/src/cpu.rs), driven as Snes::run drives it                 *)
(* (src/src/lib.rs).                                                       *)
(*                                                                         *)
(* A Rust panic ends the process.  The model keeps the machine state as it *)
(* was when the panic was raised and records the panic in `fault`; no      *)
(* operation is enabled afterwards.                                        *)
(***************************************************************************)
EXTENDS Integers, Sequences, FiniteSets, TLC

VARIABLES
    memory,           \* MemoryMap: [rom, hardware_registers]
    core,             \* Cpu: [native_interrupts, emulation_interrupts, registers]
    fault,            \* the panic that ended the run, or NoFault
    log,              \* the instructions handed to Cpu::execute (its log::trace! line)
    resets,           \* how many times Cpu::reset has run
    overflow_checks,  \* build profile: TRUE = overflow panics (debug), FALSE = wraps (release)
    harness           \* the inputs and the phase of a unit-level scenario

vars == <<memory, core, fault, log, resets, overflow_checks, harness>>

(***************************************************************************)
(* Bounds of the exploration.                                              *)
(***************************************************************************)
\* Instructions executed per run.
MaxSteps == 6
\* Calls of Cpu::reset per run.
MaxResets == 2
\* Memory-map calls per run of the memory-map specification.
MaxCalls == 2

(***************************************************************************)
(* Machine integers.                                                       *)
(***************************************************************************)
Byte == 0..255

\* Bit i of x.
Bit(x, i) == (x \div (2 ^ i)) % 2

RECURSIVE BitAnd(_, _)
BitAnd(a, b) ==
    IF a = 0 \/ b = 0 THEN 0
    ELSE (a % 2) * (b % 2) + 2 * BitAnd(a \div 2, b \div 2)

RECURSIVE BitOr(_, _)
BitOr(a, b) ==
    IF a = 0 THEN b
    ELSE IF b = 0 THEN a
    ELSE (IF a % 2 = 1 \/ b % 2 = 1 THEN 1 ELSE 0) + 2 * BitOr(a \div 2, b \div 2)

\* `!x` on a u8.
Not8(x) == 255 - x

\* u16::from_le_bytes([low, high])
from_le_bytes(low, high) == low + 256 * high

(***************************************************************************)
(* Panics.                                                                 *)
(***************************************************************************)
NoFault == [kind |-> "None"]

\* The value of an operation that returned.
Ok(v) == [fault |-> NoFault, value |-> v]

\* An operation that panicked with f.
Err(f) == [fault |-> f]

IsOk(r) == r.fault = NoFault

\* Unwinding: F on the value of r when r returned, else the panic of r.  The
\* result of r is bound once, as a call's result is, and then inspected.
Then(r, F(_)) ==
    CHOOSE out \in {IF IsOk(x) THEN F(x.value) ELSE Err(x.fault) : x \in {r}} : TRUE

\* F on the value of r when r returned, else G on the panic of r.
Either(r, F(_), G(_)) ==
    CHOOSE out \in {IF IsOk(x) THEN F(x.value) ELSE G(x.fault) : x \in {r}} : TRUE

\* unimplemented!() in an arm of the bank tables: the message names nothing.
Unmapped == [kind |-> "UnmappedAddress"]

\* `a + b` on u16: panics when the build checks overflow, wraps otherwise.
Add16(a, b) ==
    IF a + b <= 65535 THEN Ok(a + b)
    ELSE IF overflow_checks THEN Err([kind |-> "ArithmeticOverflow"])
    ELSE Ok((a + b) % 65536)

(***************************************************************************)
(* The cartridge image.  A ROM is a byte sequence of RomLen bytes; the     *)
(* model stores the cells it programs (the header window and the code)     *)
(* and reads every other cell as RomFill.                                  *)
(***************************************************************************)
\* The length of the image: two 32 KiB LoROM banks, so that banks inside
\* and banks past the image both exist.
RomLen == 64 * 1024

\* An unprogrammed ROM cell.
RomFill == \hFF

\* memory.rom[index]
RomAt(rom, index) == IF index \in DOMAIN rom THEN rom[index] ELSE RomFill

\* &bytes[from..=to] as a 1-based sequence.
Slice(rom, from, to) == [i \in 1..(to - from + 1) |-> RomAt(rom, from + i - 1)]

(***************************************************************************)
(* Header decode (snes_header.rs).  `bytes` is the 64-byte window as a     *)
(* 1-based sequence: bytes[k] of the source is bytes[k + 1] here.          *)
(***************************************************************************)
\* InterruptVector::from_bytes reading every word high byte first.
InterruptVector_from_bytes_be(bytes) ==
    LET offset_of(offset) ==
            from_le_bytes(bytes[2 * offset + 1 + 1], bytes[2 * offset + 1])
    IN  [cop   |-> offset_of(0),
         brk   |-> offset_of(1),
         abort |-> offset_of(2),
         nmi   |-> offset_of(3),
         reset |-> offset_of(4),
         irq   |-> offset_of(5)]

InterruptVector_from_bytes(bytes) ==
    LET offset_of(offset) ==
            from_le_bytes(bytes[2 * offset + 1], bytes[2 * offset + 1 + 1])
    IN  [cop   |-> offset_of(0),
         brk   |-> offset_of(1),
         abort |-> offset_of(2),
         nmi   |-> offset_of(3),
         reset |-> offset_of(4),
         irq   |-> offset_of(5)]

\* std::str::from_utf8(..).is_ok() on the title.  The titles of the model are
\* ASCII text, or hold the byte 0xFF, which no UTF-8 text contains.
Utf8Ok(bytes) == \A i \in 1..Len(bytes) : bytes[i] < 128

RomMakeup_from_byte(byte) ==
    IF byte = 32 THEN Ok("LoRom") ELSE Err([kind |-> "UnsupportedMappingMode"])

SnesHeader_from_bytes(bytes) ==
    LET native_start == 36
        native_end == 47
        emulation_start == 52
        emulation_end == 63
    IN  IF ~Utf8Ok(SubSeq(bytes, 1, 21)) THEN Err([kind |-> "InvalidHeaderEncoding"])
        ELSE Then(RomMakeup_from_byte(bytes[21 + 1]), LAMBDA makeup :
             Ok([title               |-> SubSeq(bytes, 1, 21),
                 makeup              |-> makeup,
                 kind                |-> "Rom",
                 rom_size            |-> bytes[23 + 1],
                 sram_size           |-> bytes[24 + 1],
                 creator_id          |-> bytes[25 + 1],
                 version             |-> bytes[27 + 1],
                 checksum_complement |-> bytes[28 + 1],
                 checksum            |-> bytes[29 + 1],
                 native_interrupts   |->
                     InterruptVector_from_bytes(SubSeq(bytes, native_start + 1, native_end + 1)),
                 emulation_interrupts |->
                     InterruptVector_from_bytes(SubSeq(bytes, emulation_start + 1, emulation_end + 1))]))

get_lorom_header(mem) ==
    LET start == 32704
        end == 32767
    IN  SnesHeader_from_bytes(Slice(mem.rom, start, end))

get_snes_header(mem) == get_lorom_header(mem)

(***************************************************************************)
(* The memory map (memory_map.rs, memory_map/macros.rs,                    *)
(* memory_map/registers.rs).  WorkRam and SaveRam are fields of MemoryMap  *)
(* that no arm of the bank tables resolves to, so no access reaches them.  *)
(***************************************************************************)
\* The register identities of define_memory_access!, by address.
\* A register table in which $420C names the cell of $420B.
HardwareRegisterAt_shared ==
    (\h2100 :> "ScreenDisplayRegister") @@
    (\h2140 :> "ApuIoRegister0") @@
    (\h2141 :> "ApuIoRegister1") @@
    (\h2142 :> "ApuIoRegister2") @@
    (\h2143 :> "ApuIoRegister3") @@
    (\h4200 :> "InterruptEnableRegister") @@
    (\h420C :> "DmaEnableRegister") @@
    (\h420B :> "DmaEnableRegister")

HardwareRegisterAt ==
    (\h2100 :> "ScreenDisplayRegister") @@
    (\h2140 :> "ApuIoRegister0") @@
    (\h2141 :> "ApuIoRegister1") @@
    (\h2142 :> "ApuIoRegister2") @@
    (\h2143 :> "ApuIoRegister3") @@
    (\h4200 :> "InterruptEnableRegister") @@
    (\h420C :> "HdmaEnableRegister") @@
    (\h420B :> "DmaEnableRegister")

RegisterNames == {HardwareRegisterAt[a] : a \in DOMAIN HardwareRegisterAt}

\* HardwareRegisters::default()
HardwareRegisters_default == [r \in RegisterNames |-> 0]

\* MemoryMap::new(rom)
MemoryMap_new(rom) == [rom |-> rom, hardware_registers |-> HardwareRegisters_default]

Rom(index) == [kind |-> "Rom", index |-> index]

Register(name) == [kind |-> "Register", name |-> name]

get_hardware_register(addr) ==
    IF addr \in DOMAIN HardwareRegisterAt
    THEN Ok(Register(HardwareRegisterAt[addr]))
    ELSE Err([kind |-> "UnmappedAddress", register |-> addr])

get_bank_7e(addr) == Err(Unmapped)

get_bank_7f(addr) == Err(Unmapped)

get_bank_40_6f(bank, addr) == Err(Unmapped)

get_bank_70_7d(bank, addr) == Err(Unmapped)

get_bank_fe_ff(bank, addr) == Err(Unmapped)

\* get_bank_00_3f mapping the ROM window of every bank to the first bank.
get_bank_00_3f_flat(bank, addr) ==
    IF addr <= \h1FFF THEN get_bank_7e(addr)
    ELSE IF addr <= \h20FF THEN Err(Unmapped)
    ELSE IF addr <= \h21FF THEN get_hardware_register(addr)
    ELSE IF addr <= \h2FFF THEN Err(Unmapped)
    ELSE IF addr <= \h3FFF THEN Err(Unmapped)
    ELSE IF addr <= \h40FF THEN get_hardware_register(addr)
    ELSE IF addr <= \h41FF THEN Err(Unmapped)
    ELSE IF addr <= \h44FF THEN get_hardware_register(addr)
    ELSE IF addr <= \h5FFF THEN Err(Unmapped)
    ELSE IF addr <= \h7FFF THEN Err(Unmapped)
    ELSE Ok(Rom(addr - \h8000))

get_bank_00_3f(bank, addr) ==
    IF addr <= \h1FFF THEN get_bank_7e(addr)
    ELSE IF addr <= \h20FF THEN Err(Unmapped)
    ELSE IF addr <= \h21FF THEN get_hardware_register(addr)
    ELSE IF addr <= \h2FFF THEN Err(Unmapped)
    ELSE IF addr <= \h3FFF THEN Err(Unmapped)
    ELSE IF addr <= \h40FF THEN get_hardware_register(addr)
    ELSE IF addr <= \h41FF THEN Err(Unmapped)
    ELSE IF addr <= \h44FF THEN get_hardware_register(addr)
    ELSE IF addr <= \h5FFF THEN Err(Unmapped)
    ELSE IF addr <= \h7FFF THEN Err(Unmapped)
    ELSE Ok(Rom(bank * \h8000 + addr - \h8000))

\* get_memory_access_lorom handing the upper banks on as they come.
get_memory_access_lorom_flat(bank, addr) ==
    IF bank <= \h3F THEN get_bank_00_3f(bank, addr)
    ELSE IF bank <= \h6F THEN get_bank_40_6f(bank, addr)
    ELSE IF bank <= \h7D THEN get_bank_70_7d(bank, addr)
    ELSE IF bank = \h7E THEN get_bank_7e(addr)
    ELSE IF bank = \h7F THEN get_bank_7f(addr)
    ELSE IF bank <= \hBF THEN get_bank_00_3f(bank, addr)
    ELSE IF bank <= \hEF THEN get_bank_40_6f(bank, addr)
    ELSE IF bank <= \hFD THEN get_bank_70_7d(bank, addr)
    ELSE get_bank_fe_ff(bank, addr)

get_memory_access_lorom(bank, addr) ==
    IF bank <= \h3F THEN get_bank_00_3f(bank, addr)
    ELSE IF bank <= \h6F THEN get_bank_40_6f(bank, addr)
    ELSE IF bank <= \h7D THEN get_bank_70_7d(bank, addr)
    ELSE IF bank = \h7E THEN get_bank_7e(addr)
    ELSE IF bank = \h7F THEN get_bank_7f(addr)
    ELSE IF bank <= \hBF THEN get_bank_00_3f(bank - \h80, addr)
    ELSE IF bank <= \hEF THEN get_bank_40_6f(bank - \hC0 + \h40, addr)
    ELSE IF bank <= \hFD THEN get_bank_70_7d(bank - \hF0 + \h70, addr)
    ELSE get_bank_fe_ff(bank, addr)

\* The byte behind a resolved access; memory.rom[index] panics past the image.
access_byte(mem, access) ==
    IF access.kind = "Register" THEN Ok(mem.hardware_registers[access.name])
    ELSE IF access.index < RomLen THEN Ok(RomAt(mem.rom, access.index))
    ELSE Err([kind |-> "IndexOutOfBounds", index |-> access.index])

\* access_byte_mut handing out the ROM cell as it hands out a register.
access_byte_mut_through(mem, access, value) ==
    IF access.kind = "Register"
    THEN Ok([mem EXCEPT !.hardware_registers[access.name] = value])
    ELSE Ok([mem EXCEPT !.rom = (access.index :> value) @@ @])

\* `*self.access_byte_mut(access) = value`: the memory map after the write.
access_byte_mut(mem, access, value) ==
    IF access.kind = "Register"
    THEN Ok([mem EXCEPT !.hardware_registers[access.name] = value])
    ELSE Err([kind |-> "WriteProtectionViolation"])

get_byte(mem, bank, addr) ==
    Then(get_memory_access_lorom(bank, addr), LAMBDA access : access_byte(mem, access))

\* The value of set_byte is the memory map after the write.
set_byte(mem, bank, addr, value) ==
    Then(get_memory_access_lorom(bank, addr),
         LAMBDA access : access_byte_mut(mem, access, value))

(***************************************************************************)
(* The register file (cpu/registers.rs).                                   *)
(***************************************************************************)
\* CpuRegisters::default()
CpuRegisters_default ==
    [accumulator      |-> 0,
     index_x          |-> 0,
     index_y          |-> 0,
     stack_pointer    |-> 0,
     data_bank        |-> 0,
     direct_page      |-> 0,
     program_bank     |-> 0,
     program_counter  |-> 0,
     processor_status |-> 0,
     emulation        |-> FALSE]

\* The bit offsets of impl_register!(register ProcessorStatus ...).
FlagOffset ==
    [carry |-> 0, zero |-> 1, irq |-> 2, decimal |-> 3,
     index |-> 4, accumulator |-> 5, overflow |-> 6, negative |-> 7]

\* $get: (self.0 & (1 << $offset)) != 0
get_flag(p, flag) == BitAnd(p, 2 ^ FlagOffset[flag]) # 0

\* $set: self.0 |= (state as u8) << $offset
set_flag(p, flag, state) == BitOr(p, (IF state THEN 1 ELSE 0) * (2 ^ FlagOffset[flag]))

(***************************************************************************)
(* Instructions and their operands (cpu.rs).                               *)
(***************************************************************************)
Absolute(addr) == [mode |-> "Absolute", addr |-> addr]

AbsoluteLong(bank, addr) == [mode |-> "AbsoluteLong", bank |-> bank, addr |-> addr]

Immediate8(data) == [mode |-> "Immediate8", data |-> data]

Immediate16(data) == [mode |-> "Immediate16", data |-> data]

\* An instruction without an operand.
Implied(op) == [op |-> op]

\* An instruction with an Address operand.
WithAddress(op, address) == [op |-> op, address |-> address]

ResetStatusFlags(mask) == [op |-> "ResetStatusFlags", mask |-> mask]

\* arg_size counting one byte for every immediate.
Address_arg_size_narrow(address) ==
    CASE address.mode = "Absolute" -> 2
      [] address.mode = "AbsoluteLong" -> 3
      [] address.mode = "Immediate8" -> 1
      [] address.mode = "Immediate16" -> 1

Address_arg_size(address) ==
    CASE address.mode = "Absolute" -> 2
      [] address.mode = "AbsoluteLong" -> 3
      [] address.mode = "Immediate8" -> 1
      [] address.mode = "Immediate16" -> 2

Instruction_size(instruction) ==
    IF instruction.op \in {"Jump", "StoreZero", "LoadAccumulator", "StoreAccumulator"}
    THEN 1 + Address_arg_size(instruction.address)
    ELSE IF instruction.op = "ResetStatusFlags" THEN 2
    ELSE 1

(***************************************************************************)
(* Cpu (cpu.rs).  `c` is a Cpu, `mem` a MemoryMap.                         *)
(***************************************************************************)
\* Cpu::new: the value is the Cpu, or the panic of the header decode.
Cpu_new(mem) ==
    Then(get_snes_header(mem), LAMBDA header :
         Ok([native_interrupts    |-> header.native_interrupts,
             emulation_interrupts |-> header.emulation_interrupts,
             registers            |-> CpuRegisters_default]))

\* reset without `program_bank = 0`.
reset_keeps_bank(c) ==
    LET p0 == c.registers.processor_status
        p1 == set_flag(p0, "accumulator", TRUE)
        p2 == set_flag(p1, "index", TRUE)
        p3 == set_flag(p2, "decimal", FALSE)
        p4 == set_flag(p3, "irq", TRUE)
        p5 == set_flag(p4, "carry", TRUE)
    IN  [c EXCEPT !.registers.program_counter = c.emulation_interrupts.reset,
                  !.registers.stack_pointer = \h0100,
                  !.registers.index_x = 0,
                  !.registers.index_y = 0,
                  !.registers.accumulator = 0,
                  !.registers.emulation = TRUE,
                  !.registers.processor_status = p5]

reset(c) ==
    LET p0 == c.registers.processor_status
        p1 == set_flag(p0, "accumulator", TRUE)
        p2 == set_flag(p1, "index", TRUE)
        p3 == set_flag(p2, "decimal", FALSE)
        p4 == set_flag(p3, "irq", TRUE)
        p5 == set_flag(p4, "carry", TRUE)
    IN  [c EXCEPT !.registers.program_counter = c.emulation_interrupts.reset,
                  !.registers.program_bank = 0,
                  !.registers.stack_pointer = \h0100,
                  !.registers.index_x = 0,
                  !.registers.index_y = 0,
                  !.registers.accumulator = 0,
                  !.registers.emulation = TRUE,
                  !.registers.processor_status = p5]

get_instruction_arg(c, mem, delta) ==
    Then(Add16(c.registers.program_counter, delta),
         LAMBDA at : get_byte(mem, c.registers.program_bank, at))

get_arg_absolute(c, mem) ==
    Then(get_instruction_arg(c, mem, 1), LAMBDA low :
    Then(get_instruction_arg(c, mem, 2), LAMBDA high :
         Ok(Absolute(from_le_bytes(low, high)))))

get_arg_absolute_long(c, mem) ==
    Then(get_instruction_arg(c, mem, 1), LAMBDA low :
    Then(get_instruction_arg(c, mem, 2), LAMBDA high :
    Then(get_instruction_arg(c, mem, 3), LAMBDA bank :
         Ok(AbsoluteLong(bank, from_le_bytes(low, high))))))

\* get_arg_immediate_8bit taking the two bytes of a 16-bit immediate.
get_arg_immediate_8bit_wide(c, mem) ==
    Then(get_instruction_arg(c, mem, 1), LAMBDA low :
    Then(get_instruction_arg(c, mem, 2), LAMBDA high :
         Ok(Immediate16(from_le_bytes(low, high)))))

get_arg_immediate_8bit(c, mem) ==
    Then(get_instruction_arg(c, mem, 1), LAMBDA data : Ok(Immediate8(data)))

get_arg_immediate_16bit(c, mem) ==
    Then(get_instruction_arg(c, mem, 1), LAMBDA low :
    Then(get_instruction_arg(c, mem, 2), LAMBDA high :
         Ok(Immediate16(from_le_bytes(low, high)))))

\* The panic of the `_` arm of fetch_instruction: its message holds the opcode.
UnimplementedOpcode(opcode) == [kind |-> "UnimplementedOpcode", opcode |-> opcode]

\* The match of fetch_instruction on the opcode byte.
decode(c, mem, opcode) ==
    CASE opcode = \h18 -> Ok(Implied("ClearCarry"))
      [] opcode = \h4C ->
            Then(get_arg_absolute(c, mem), LAMBDA a : Ok(WithAddress("Jump", a)))
      [] opcode = \h5C ->
            Then(get_arg_absolute_long(c, mem), LAMBDA a : Ok(WithAddress("Jump", a)))
      [] opcode = \h78 -> Ok(Implied("DisableInterruptRequests"))
      [] opcode = \h9C ->
            Then(get_arg_absolute(c, mem), LAMBDA a : Ok(WithAddress("StoreZero", a)))
      [] opcode = \h8D ->
            Then(get_arg_absolute(c, mem), LAMBDA a : Ok(WithAddress("StoreAccumulator", a)))
      [] opcode = \hA9 /\ get_flag(c.registers.processor_status, "accumulator") ->
            Then(get_arg_immediate_8bit(c, mem),
                 LAMBDA a : Ok(WithAddress("LoadAccumulator", a)))
      [] opcode = \hA9 /\ ~get_flag(c.registers.processor_status, "accumulator") ->
            Then(get_arg_immediate_16bit(c, mem),
                 LAMBDA a : Ok(WithAddress("LoadAccumulator", a)))
      [] opcode = \hC2 ->
            Then(get_instruction_arg(c, mem, 1), LAMBDA mask : Ok(ResetStatusFlags(mask)))
      [] opcode = \hFB -> Ok(Implied("ExchangeCarryEmulator"))
      [] OTHER -> Err(UnimplementedOpcode(opcode))

fetch_instruction(c, mem) ==
    Then(get_instruction_arg(c, mem, 0), LAMBDA opcode : decode(c, mem, opcode))

\* self.registers.program_counter += u16::from(delta)
advance(c, delta) ==
    Then(Add16(c.registers.program_counter, delta),
         LAMBDA to : Ok([c EXCEPT !.registers.program_counter = to]))

\* raw_address resolving an Absolute operand against the program bank.
raw_address_program_bank(c, address) ==
    CASE address.mode = "Absolute" -> Ok(<<c.registers.program_bank, address.addr>>)
      [] address.mode = "AbsoluteLong" -> Ok(<<address.bank, address.addr>>)
      [] OTHER -> Err([kind |-> "AddressOfImmediate"])

\* The value is the pair <<bank, addr>>.
raw_address(c, address) ==
    CASE address.mode = "Absolute" -> Ok(<<c.registers.data_bank, address.addr>>)
      [] address.mode = "AbsoluteLong" -> Ok(<<address.bank, address.addr>>)
      [] OTHER -> Err([kind |-> "AddressOfImmediate"])

\* get_data resolving the address of every operand, immediates included.
get_data_resolving(c, mem, address, wide) ==
    Then(raw_address(c, address), LAMBDA at :
    Then(get_byte(mem, at[1], at[2]), LAMBDA low :
         IF wide
         THEN Then(Add16(at[2], 1), LAMBDA next :
              Then(get_byte(mem, at[1], next), LAMBDA high :
                   Ok(from_le_bytes(low, high))))
         ELSE Ok(low)))

get_data(c, mem, address, wide) ==
    CASE address.mode = "Immediate8" -> Ok(address.data)
      [] address.mode = "Immediate16" -> Ok(address.data)
      [] OTHER ->
            Then(raw_address(c, address), LAMBDA at :
            Then(get_byte(mem, at[1], at[2]), LAMBDA low :
                 IF wide
                 THEN Then(Add16(at[2], 1), LAMBDA next :
                      Then(get_byte(mem, at[1], next), LAMBDA high :
                           Ok(from_le_bytes(low, high))))
                 ELSE Ok(low)))

\* What an instruction leaves behind: the Cpu, the memory map and its panic, if any.
Effect(c, mem, f) == [core |-> c, memory |-> mem, fault |-> f]

\* jump adding the target to the advanced counter.
jump_additive(c, mem, address) ==
    Either(raw_address(c, address),
           LAMBDA at : Effect([c EXCEPT !.registers.program_bank = at[1],
                                        !.registers.program_counter = (@ + at[2]) % 65536],
                              mem, NoFault),
           LAMBDA f : Effect(c, mem, f))

jump(c, mem, address) ==
    Either(raw_address(c, address),
           LAMBDA at : Effect([c EXCEPT !.registers.program_bank = at[1],
                                        !.registers.program_counter = at[2]],
                              mem, NoFault),
           LAMBDA f : Effect(c, mem, f))

load_accumulator(c, mem, address) ==
    LET wide == ~get_flag(c.registers.processor_status, "accumulator")
    IN  Either(get_data(c, mem, address, wide),
               LAMBDA data : Effect([c EXCEPT !.registers.accumulator = data], mem, NoFault),
               LAMBDA f : Effect(c, mem, f))

\* store_accumulator writing both bytes whatever the width.
store_accumulator_both(c, mem, address) ==
    LET low == BitAnd(c.registers.accumulator, \hFF)
        high == BitAnd(c.registers.accumulator, \hFF00) \div 256
    IN  Either(raw_address(c, address), LAMBDA at :
        Either(set_byte(mem, at[1], at[2], low), LAMBDA first :
               Either(Add16(at[2], 1), LAMBDA next :
               Either(set_byte(first, at[1], next, high),
                      LAMBDA second : Effect(c, second, NoFault),
                      LAMBDA f : Effect(c, first, f)),
                      LAMBDA f : Effect(c, first, f)),
               LAMBDA f : Effect(c, mem, f)),
               LAMBDA f : Effect(c, mem, f))

store_accumulator(c, mem, address) ==
    LET low == BitAnd(c.registers.accumulator, \hFF)
        wide == ~get_flag(c.registers.processor_status, "accumulator")
        high == BitAnd(c.registers.accumulator, \hFF00) \div 256
    IN  Either(raw_address(c, address), LAMBDA at :
        Either(set_byte(mem, at[1], at[2], low), LAMBDA first :
               IF wide
               THEN Either(Add16(at[2], 1), LAMBDA next :
                    Either(set_byte(first, at[1], next, high),
                           LAMBDA second : Effect(c, second, NoFault),
                           LAMBDA f : Effect(c, first, f)),
                           LAMBDA f : Effect(c, first, f))
               ELSE Effect(c, first, NoFault),
               LAMBDA f : Effect(c, mem, f)),
               LAMBDA f : Effect(c, mem, f))

\* store writing the byte at the address and at the address after it.
store_pair(c, value, mem, address) ==
    Either(raw_address(c, address), LAMBDA at :
    Either(set_byte(mem, at[1], at[2], value), LAMBDA first :
    Either(set_byte(first, at[1], (at[2] + 1) % 65536, value),
           LAMBDA second : Effect(c, second, NoFault),
           LAMBDA f : Effect(c, first, NoFault)),
           LAMBDA f : Effect(c, mem, f)),
           LAMBDA f : Effect(c, mem, f))

store(c, value, mem, address) ==
    Either(raw_address(c, address), LAMBDA at :
    Either(set_byte(mem, at[1], at[2], value),
           LAMBDA written : Effect(c, written, NoFault),
           LAMBDA f : Effect(c, mem, f)),
           LAMBDA f : Effect(c, mem, f))

\* ResetStatusFlags setting the masked bits, as SEP does.
reset_status_flags_set(p, mask) == BitOr(p, mask)

\* ResetStatusFlags keeping the masked bits instead of clearing them.
reset_status_flags_keep(p, mask) == BitAnd(p, mask)

\* The ResetStatusFlags arm of execute: p.0 = !((!p.0) | mask)
reset_status_flags(p, mask) == Not8(BitOr(Not8(p), mask))

\* ExchangeCarryEmulator exchanging the two bits, as the 65C816 does.
exchange_carry_emulator_both(c, mem) ==
    LET carry == get_flag(c.registers.processor_status, "carry")
        status == c.registers.processor_status - (IF carry THEN 1 ELSE 0)
                     + (IF c.registers.emulation THEN 1 ELSE 0)
    IN  Effect([c EXCEPT !.registers.emulation = carry,
                         !.registers.processor_status = status], mem, NoFault)

\* The ExchangeCarryEmulator arm of execute.
exchange_carry_emulator(c, mem) ==
    LET carry == get_flag(c.registers.processor_status, "carry")
    IN  Effect([c EXCEPT !.registers.emulation = carry], mem, NoFault)

execute(c, instruction, mem) ==
    CASE instruction.op = "Jump" -> jump(c, mem, instruction.address)
      [] instruction.op = "DisableInterruptRequests" ->
            Effect([c EXCEPT !.registers.processor_status = set_flag(@, "irq", FALSE)],
                   mem, NoFault)
      [] instruction.op = "ClearCarry" ->
            Effect([c EXCEPT !.registers.processor_status = set_flag(@, "carry", FALSE)],
                   mem, NoFault)
      [] instruction.op = "ExchangeCarryEmulator" -> exchange_carry_emulator(c, mem)
      [] instruction.op = "ResetStatusFlags" ->
            Effect([c EXCEPT !.registers.processor_status =
                                 reset_status_flags(@, instruction.mask)],
                   mem, NoFault)
      [] instruction.op = "LoadAccumulator" -> load_accumulator(c, mem, instruction.address)
      [] instruction.op = "StoreAccumulator" -> store_accumulator(c, mem, instruction.address)
      [] instruction.op = "StoreZero" -> store(c, 0, mem, instruction.address)

\* What a tick leaves behind: `executed` holds the instruction that reached
\* execute, if one did.
Ticked(effect, executed) ==
    [core |-> effect.core, memory |-> effect.memory, fault |-> effect.fault,
     executed |-> executed]

\* Cpu::tick: fetch, advance, execute.
tick(c, mem) ==
    Either(fetch_instruction(c, mem), LAMBDA instruction :
    Either(advance(c, Instruction_size(instruction)),
           LAMBDA advanced : Ticked(execute(advanced, instruction, mem), <<instruction>>),
           LAMBDA f : Ticked(Effect(c, mem, f), <<>>)),
           LAMBDA f : Ticked(Effect(c, mem, f), <<>>))

(***************************************************************************)
(* The cartridges of the exploration.                                      *)
(***************************************************************************)
HeaderStart == \h7FC0

\* A 64-byte header window: an ASCII title, the mapping-mode byte, the size
\* and checksum bytes, and twelve vectors.  Every vector but the emulation
\* RESET and IRQ vectors holds a value of its own.
HeaderWindow(makeup, emulation_reset, emulation_irq) ==
    [k \in 1..64 |->
        LET i == k - 1
        IN  IF i <= 20 THEN \h41 + i
            ELSE IF i = 21 THEN makeup
            ELSE IF i = \h3C THEN emulation_reset % 256
            ELSE IF i = \h3D THEN emulation_reset \div 256
            ELSE IF i = \h3E THEN emulation_irq % 256
            ELSE IF i = \h3F THEN emulation_irq \div 256
            ELSE \h80 + i]

\* The image with `code` at ROM index `base` and `window` as its header; the
\* header wins where the two overlap.
Image(code, base, window) ==
    [i \in (base..(base + Len(code) - 1)) \cup (HeaderStart..(HeaderStart + 63)) |->
        IF i >= HeaderStart THEN window[i - HeaderStart + 1] ELSE code[i - base + 1]]

\* The bootstrap sequence SEI, CLC, LDA #, STA $2100.
Bootstrap == <<\h78, \h18, \hA9, \h34, \h12, \h8D, \h00, \h21>>

\* Masks of REP.
Masks == {\h00, \h01, \h04, \h20, \h21, \h30, \h35, \hFF}

Programs ==
    {Bootstrap,
     \* REP #$20, LDA #$1234, STA $2140, STZ $2141, XCE, JML $80:8000
     <<\hC2, \h20, \hA9, \h34, \h12, \h8D, \h40, \h21, \h9C, \h41, \h21, \hFB,
       \h5C, \h00, \h80, \h80>>,
     \* REP #$20, LDA #$1234, STA $2140, STZ $2140: $2141 keeps the high byte
     <<\hC2, \h20, \hA9, \h34, \h12, \h8D, \h40, \h21, \h9C, \h40, \h21>>,
     \* REP #$20, LDA #$BEEF, STA $2100: the high byte goes to $2101
     <<\hC2, \h20, \hA9, \hEF, \hBE, \h8D, \h00, \h21>>,
     \* LDA #$7F, STA $420B, STZ $420B, JMP $8000
     <<\hA9, \h7F, \h8D, \h0B, \h42, \h9C, \h0B, \h42, \h4C, \h00, \h80>>,
     \* CLC, XCE, REP #$01, XCE, SEI, JMP $8006, FF
     <<\h18, \hFB, \hC2, \h01, \hFB, \h78, \h4C, \h0A, \h80, \hFF, \h18, \hFB>>,
     \* JML $80:8004, REP #$21, LDA #$1234, XCE
     <<\h5C, \h04, \h80, \h80, \hC2, \h21, \hA9, \h34, \h12, \hFB>>,
     \* JML $01:8000, into the second bank; JML $02:8000, past the image
     <<\h5C, \h00, \h80, \h01>>,
     <<\h5C, \h00, \h80, \h02>>,
     \* JML $C0:8000, JML $7E:0000
     <<\h5C, \h00, \h80, \hC0>>,
     <<\h5C, \h00, \h00, \h7E>>,
     \* JMP $0000, JMP $FFFF, JMP $FFFD
     <<\h4C, \h00, \h00>>,
     <<\h4C, \hFF, \hFF>>,
     <<\h4C, \hFD, \hFF>>,
     \* LDA #$5A, STA $8000 (ROM); STZ $8000 (ROM); STA $0000; STZ $2101
     <<\hA9, \h5A, \h8D, \h00, \h80>>,
     <<\h9C, \h00, \h80>>,
     <<\h8D, \h00, \h00>>,
     <<\h9C, \h01, \h21>>,
     \* REP #$20, LDA #$AB5A, STA $FFFF: the high byte is at $FFFF + 1
     <<\hC2, \h20, \hA9, \h5A, \hAB, \h8D, \hFF, \hFF>>}
    \cup {<<opcode>> : opcode \in Byte}
    \cup {<<\hC2, mask, \hA9, \h34, \h12, \h8D, \h40, \h21, \h18, \h78, \hFB, \h9C, \h42, \h21>> :
              mask \in Masks}

\* A cartridge: its code, the emulation RESET vector, which also places the
\* code, and the emulation IRQ vector, the last two bytes of the image.
Cartridge(code, at, irq) ==
    Image(code, IF at >= \h8000 THEN at - \h8000 ELSE 0, HeaderWindow(\h20, at, irq))

Cartridges ==
    {Cartridge(code, \h8000, 0) : code \in Programs}
    \cup {Cartridge(Bootstrap, \h9000, 0),
          \* the RESET vector points below the ROM window
          Cartridge(Bootstrap, \h0000, 0),
          Cartridge(Bootstrap, \h2100, 0),
          \* CLC, then the first byte of the title
          Cartridge(<<\h18>>, \hFFBF, 0),
          \* the code is the emulation IRQ vector: XCE, CLC at $FFFE
          Cartridge(<<>>, \hFFFE, \h18FB),
          Cartridge(<<>>, \hFFFF, \h18FB),
          \* JMP at $FFFE, REP at $FFFF, JMP at $FFFD: the operand crosses $FFFF
          Cartridge(<<>>, \hFFFE, \h004C),
          Cartridge(<<>>, \hFFFF, \hC200),
          Cartridge(<<>>, \hFFFF, \hA900),
          \* a mapping mode other than LoROM
          Image(Bootstrap, 0, HeaderWindow(\h21, \h8000, 0))}

(***************************************************************************)
(* Snes (lib.rs).  Init is the machine Snes::start hands to Snes::run.     *)
(***************************************************************************)
\* The scenario of a machine that runs.
Running == [phase |-> "run"]

\* Where no Cpu was built: Cpu::new panicked.
NoCpu ==
    [native_interrupts |-> <<>>, emulation_interrupts |-> <<>>,
     registers |-> CpuRegisters_default]

Constructed(rom) ==
    \E cpu \in {Cpu_new(MemoryMap_new(rom))} :
        /\ memory = MemoryMap_new(rom)
        /\ core = IF IsOk(cpu) THEN cpu.value ELSE NoCpu
        /\ fault = cpu.fault
        /\ log = <<>>
        /\ resets = 0

Init ==
    /\ \E rom \in Cartridges : Constructed(rom)
    /\ overflow_checks \in BOOLEAN
    /\ harness = Running

\* self.core.reset()
Reset ==
    /\ fault = NoFault
    /\ harness.phase = "run"
    /\ resets < MaxResets
    /\ core' = reset(core)
    /\ resets' = resets + 1
    /\ UNCHANGED <<memory, fault, log, overflow_checks, harness>>

\* self.core.tick(&mut self.memory)
Tick ==
    /\ fault = NoFault
    /\ harness.phase = "run"
    /\ resets >= 1
    /\ Len(log) < MaxSteps
    /\ \E r \in {tick(core, memory)} :
           /\ core' = r.core
           /\ memory' = r.memory
           /\ fault' = r.fault
           /\ log' = log \o r.executed
    /\ UNCHANGED <<resets, overflow_checks, harness>>

Next == Reset \/ Tick

Spec == Init /\ [][Next]_vars

(***************************************************************************)
(* The machine with the memory map's public operations called between the  *)
(* steps of the Cpu.                                                       *)
(***************************************************************************)
\* The cartridges whose programs store: to registers, to ROM, one byte and two.
MemoryPrograms ==
    {<<\hC2, \h20, \hA9, \h34, \h12, \h8D, \h40, \h21, \h9C, \h41, \h21, \hFB,
       \h5C, \h00, \h80, \h80>>,
     <<\hA9, \h5A, \h8D, \h00, \h80>>,
     <<\h9C, \h00, \h80>>,
     <<\hC2, \h20, \hA9, \h5A, \hAB, \h8D, \hFF, \hFF>>}

\* The banks, addresses and values the calls are made with.
CallBanks == {\h00, \h80}

CallAddrs == {\h0000, \h2100, \h8000}

CallValues == {\h5A, \hA5}

NoCall == [op |-> "none"]

InitMemory ==
    /\ \E code \in MemoryPrograms : Constructed(Cartridge(code, \h8000, 0))
    /\ overflow_checks \in BOOLEAN
    /\ harness = [phase |-> "run", calls |-> 0, last |-> NoCall]

\* memory.get_byte(bank, addr)
GetByte ==
    /\ fault = NoFault
    /\ harness.calls < MaxCalls
    /\ \E bank \in CallBanks, addr \in CallAddrs :
       \E r \in {get_byte(memory, bank, addr)} :
           /\ fault' = r.fault
           /\ harness' = [harness EXCEPT !.calls = @ + 1,
                                         !.last = [op |-> "get_byte", bank |-> bank,
                                                   addr |-> addr, result |-> r]]
    /\ UNCHANGED <<memory, core, log, resets, overflow_checks>>

\* memory.set_byte(bank, addr, value)
SetByte ==
    /\ fault = NoFault
    /\ harness.calls < MaxCalls
    /\ \E bank \in CallBanks, addr \in CallAddrs, value \in CallValues :
       \E r \in {set_byte(memory, bank, addr, value)} :
           /\ memory' = IF IsOk(r) THEN r.value ELSE memory
           /\ fault' = r.fault
           /\ harness' = [harness EXCEPT !.calls = @ + 1,
                                         !.last = [op |-> "set_byte", bank |-> bank,
                                                   addr |-> addr, value |-> value]]
    /\ UNCHANGED <<core, log, resets, overflow_checks>>

NextMemory == Reset \/ Tick \/ GetByte \/ SetByte

SpecMemory == InitMemory /\ [][NextMemory]_vars

(***************************************************************************)
(* Cpu::execute applied to one instruction, on registers drawn from their  *)
(* whole range.                                                            *)
(***************************************************************************)
\* The Cpu of the bootstrap cartridge after reset.
ResetCpu == reset(Cpu_new(MemoryMap_new(Cartridge(Bootstrap, \h8000, 0))).value)

Executing == [phase |-> "execute"]

InitStatus ==
    /\ memory = MemoryMap_new(Cartridge(Bootstrap, \h8000, 0))
    /\ \E status \in Byte :
           core = [ResetCpu EXCEPT !.registers.processor_status = status]
    /\ fault = NoFault
    /\ log = <<>>
    /\ resets = 1
    /\ overflow_checks \in BOOLEAN
    /\ harness = Executing

\* execute(ResetStatusFlags(mask), memory)
ExecuteResetStatusFlags ==
    /\ fault = NoFault
    /\ log = <<>>
    /\ \E mask \in Byte :
       \E r \in {execute(core, ResetStatusFlags(mask), memory)} :
           /\ core' = r.core
           /\ memory' = r.memory
           /\ fault' = r.fault
           /\ log' = <<ResetStatusFlags(mask)>>
    /\ UNCHANGED <<resets, overflow_checks, harness>>

NextStatus == ExecuteResetStatusFlags

SpecStatus == InitStatus /\ [][NextStatus]_vars

\* The accumulators, the widths and the addresses of a store and a load.
AccumulatorValues == {\h0000, \h0034, \h00FF, \h0100, \h1234, \h8000, \hFF00, \hFFFF}

\* The processor status after reset, and after REP #$20.
WidthSettings == {\h35, \h15}

TransferAddresses ==
    {Absolute(\h2100), Absolute(\h213F), Absolute(\h2140), Absolute(\h2142), Absolute(\h2143),
     Absolute(\h420B), AbsoluteLong(\h80, \h2140), AbsoluteLong(\h3F, \h4200),
     Absolute(\h8000), Absolute(\h0000), Absolute(\hFFFF), AbsoluteLong(\h7E, \h0000)}

InitAccumulator ==
    /\ memory = MemoryMap_new(Cartridge(Bootstrap, \h8000, 0))
    /\ \E value \in AccumulatorValues, status \in WidthSettings, address \in TransferAddresses :
           /\ core = [ResetCpu EXCEPT !.registers.accumulator = value,
                                      !.registers.processor_status = status]
           /\ harness = [phase |-> "store", address |-> address, original |-> value]
    /\ fault = NoFault
    /\ log = <<>>
    /\ resets = 1
    /\ overflow_checks \in BOOLEAN

\* execute(StoreAccumulator(address), memory)
ExecuteStoreAccumulator ==
    /\ fault = NoFault
    /\ harness.phase = "store"
    /\ \E r \in {execute(core, WithAddress("StoreAccumulator", harness.address), memory)} :
           /\ core' = r.core
           /\ memory' = r.memory
           /\ fault' = r.fault
    /\ log' = log \o <<WithAddress("StoreAccumulator", harness.address)>>
    /\ harness' = [harness EXCEPT !.phase = "load"]
    /\ UNCHANGED <<resets, overflow_checks>>

\* execute(LoadAccumulator(address), memory)
ExecuteLoadAccumulator ==
    /\ fault = NoFault
    /\ harness.phase = "load"
    /\ \E r \in {execute(core, WithAddress("LoadAccumulator", harness.address), memory)} :
           /\ core' = r.core
           /\ memory' = r.memory
           /\ fault' = r.fault
    /\ log' = log \o <<WithAddress("LoadAccumulator", harness.address)>>
    /\ harness' = [harness EXCEPT !.phase = "loaded"]
    /\ UNCHANGED <<resets, overflow_checks>>

NextAccumulator == ExecuteStoreAccumulator \/ ExecuteLoadAccumulator

SpecAccumulator == InitAccumulator /\ [][NextAccumulator]_vars

(***************************************************************************)
(* The flag mutators of ProcessorStatus, each applied once to a status     *)
(* byte drawn from its whole range.                                        *)
(***************************************************************************)
Flags == DOMAIN FlagOffset

InitFlags ==
    /\ memory = MemoryMap_new(Cartridge(Bootstrap, \h8000, 0))
    /\ \E status \in Byte :
           core = [ResetCpu EXCEPT !.registers.processor_status = status]
    /\ fault = NoFault
    /\ log = <<>>
    /\ resets = 1
    /\ overflow_checks \in BOOLEAN
    /\ harness = [phase |-> "set"]

\* self.registers.processor_status.$set(state)
SetFlag ==
    /\ harness.phase = "set"
    /\ \E flag \in Flags, state \in BOOLEAN :
           /\ core' = [core EXCEPT !.registers.processor_status = set_flag(@, flag, state)]
           /\ harness' = [phase |-> "done", flag |-> flag, state |-> state,
                          before |-> core.registers.processor_status]
    /\ UNCHANGED <<memory, fault, log, resets, overflow_checks>>

NextFlags == SetFlag

SpecFlags == InitFlags /\ [][NextFlags]_vars

(***************************************************************************)
(* MemoryMap::get_snes_header applied to images whose header windows       *)
(* differ in every field.                                                  *)
(***************************************************************************)
\* The titles: ASCII text from `first` on, with the byte 0xFF at place
\* `broken` when that is one of the 21 places.
WindowTitles == {<<\h41, 21>>, <<\h20, 21>>, <<\h6B, 21>>, <<\h41, 0>>, <<\h41, 20>>, <<\h30, 7>>}

WindowSeeds == 0..11

WindowMakeups == {\h20, \h21, \h00}

\* A 64-byte window: the title, the mapping-mode byte, and every other byte
\* a value that depends on its place and on the seed.
Window(title, makeup, seed) ==
    [k \in 1..64 |->
        LET i == k - 1
        IN  IF i <= 20 THEN (IF i = title[2] THEN \hFF ELSE (title[1] + i) % 128)
            ELSE IF i = 21 THEN makeup
            ELSE (seed * 37 + i * (2 * seed + 3)) % 256]

InitHeader ==
    /\ \E title \in WindowTitles, makeup \in WindowMakeups, seed \in WindowSeeds :
           memory = MemoryMap_new(Image(<<>>, 0, Window(title, makeup, seed)))
    /\ core = NoCpu
    /\ fault = NoFault
    /\ log = <<>>
    /\ resets = 0
    /\ overflow_checks \in BOOLEAN
    /\ harness = [phase |-> "decode"]

\* memory.get_snes_header()
GetSnesHeader ==
    /\ harness.phase = "decode"
    /\ \E r \in {get_snes_header(memory)} :
           /\ fault' = r.fault
           /\ harness' = IF IsOk(r) THEN [phase |-> "decoded", header |-> r.value]
                         ELSE [phase |-> "decoded"]
    /\ UNCHANGED <<memory, core, log, resets, overflow_checks>>

NextHeader == GetSnesHeader

SpecHeader == InitHeader /\ [][NextHeader]_vars

(***************************************************************************)
(* Snes::run as it is written: one reset, then the loop of ticks.  The log *)
(* keeps the first MaxSteps instructions of the run.                       *)
(***************************************************************************)
InitRun ==
    /\ \E rom \in Cartridges : Constructed(rom)
    /\ overflow_checks \in BOOLEAN
    /\ harness = [phase |-> "Reset"]

\* self.core.reset(), the first statement of run
RunReset ==
    /\ fault = NoFault
    /\ harness.phase = "Reset"
    /\ core' = reset(core)
    /\ resets' = resets + 1
    /\ harness' = [phase |-> "Running"]
    /\ UNCHANGED <<memory, fault, log, overflow_checks>>

\* A loop that leaves after MaxSteps instructions.
RunTickBounded ==
    /\ fault = NoFault
    /\ harness.phase = "Running"
    /\ Len(log) < MaxSteps
    /\ \E r \in {tick(core, memory)} :
           /\ core' = r.core
           /\ memory' = r.memory
           /\ fault' = r.fault
           /\ log' = log \o r.executed
    /\ UNCHANGED <<resets, overflow_checks, harness>>

\* loop { self.core.tick(&mut self.memory) }
RunTick ==
    /\ fault = NoFault
    /\ harness.phase = "Running"
    /\ \E r \in {tick(core, memory)} :
           /\ core' = r.core
           /\ memory' = r.memory
           /\ fault' = r.fault
           /\ log' = IF Len(log) < MaxSteps THEN log \o r.executed ELSE log
    /\ UNCHANGED <<resets, overflow_checks, harness>>

NextRun == RunReset \/ RunTick

SpecRun == InitRun /\ [][NextRun]_vars

(***************************************************************************)
(* MemoryMap::set_byte called on the hardware registers of a freshly       *)
(* constructed map; harness.cells is what was last written to each         *)
(* address.                                                                *)
(***************************************************************************)
RegisterAddrs == DOMAIN HardwareRegisterAt

RegisterBanks == {\h00, \hBF}

RegisterValues == {\h5A, \hA5}

InitRegisters ==
    /\ memory = MemoryMap_new(Cartridge(Bootstrap, \h8000, 0))
    /\ core = ResetCpu
    /\ fault = NoFault
    /\ log = <<>>
    /\ resets = 1
    /\ overflow_checks \in BOOLEAN
    /\ harness = [phase |-> "registers", calls |-> 0, cells |-> [a \in RegisterAddrs |-> 0]]

\* memory.set_byte(bank, addr, value) with addr the address of a register
SetRegister ==
    /\ fault = NoFault
    /\ harness.calls < MaxCalls
    /\ \E bank \in RegisterBanks, addr \in RegisterAddrs, value \in RegisterValues :
       \E r \in {set_byte(memory, bank, addr, value)} :
           /\ memory' = IF IsOk(r) THEN r.value ELSE memory
           /\ fault' = r.fault
           /\ harness' = [harness EXCEPT !.calls = @ + 1, !.cells[addr] = value]
    /\ UNCHANGED <<core, log, resets, overflow_checks>>

NextRegisters == SetRegister

SpecRegisters == InitRegisters /\ [][NextRegisters]_vars

(***************************************************************************)
(* Cpu::execute applied to one instruction with an address operand, with   *)
(* the two bank registers drawn apart from each other.                     *)
(***************************************************************************)
OperandDataBanks == {\h00, \h01, \h40, \h80}

OperandProgramBanks == {\h00, \h02}

OperandAddresses ==
    {Absolute(\h2100), Absolute(\h4200), Absolute(\h8000), AbsoluteLong(\h00, \h2100),
     AbsoluteLong(\h80, \h2140), AbsoluteLong(\h40, \h2100), AbsoluteLong(\h01, \h8000)}

OperandInstructions == {"Jump", "StoreAccumulator", "StoreZero"}

InitOperand ==
    /\ memory = MemoryMap_new(Cartridge(Bootstrap, \h8000, 0))
    /\ \E data_bank \in OperandDataBanks, program_bank \in OperandProgramBanks :
           core = [ResetCpu EXCEPT !.registers.data_bank = data_bank,
                                   !.registers.program_bank = program_bank,
                                   !.registers.accumulator = \h5A]
    /\ fault = NoFault
    /\ log = <<>>
    /\ resets = 1
    /\ overflow_checks \in BOOLEAN
    /\ harness = Executing

\* execute(Jump(address) | StoreAccumulator(address) | StoreZero(address), memory)
ExecuteWithOperand ==
    /\ fault = NoFault
    /\ log = <<>>
    /\ \E op \in OperandInstructions, address \in OperandAddresses :
       \E r \in {execute(core, WithAddress(op, address), memory)} :
           /\ core' = r.core
           /\ memory' = r.memory
           /\ fault' = r.fault
           /\ log' = <<WithAddress(op, address)>>
    /\ UNCHANGED <<resets, overflow_checks, harness>>

NextOperand == ExecuteWithOperand

SpecOperand == InitOperand /\ [][NextOperand]_vars

(***************************************************************************)
(* Shorthands of the properties.                                           *)
(***************************************************************************)
Regs == core.registers

Status == core.registers.processor_status

\* The instruction execute was last handed.
LastExecuted == log[Len(log)]

\* This step is a tick that reached execute with an instruction named in ops.
Executes(ops) ==
    /\ Len(log') = Len(log) + 1
    /\ log'[Len(log')].op \in ops

\* The emulation RESET vector as the image holds it: the little-endian word
\* at offset 0x3C of the header window.
ResetVectorInRom ==
    RomAt(memory.rom, HeaderStart + \h3C) + 256 * RomAt(memory.rom, HeaderStart + \h3D)

(***************************************************************************)
(* C1.  Whenever reset runs, on the fresh Cpu or after any steps, the      *)
(* state right after it has program_counter = the emulation RESET vector   *)
(* of the header, program_bank = 0, stack_pointer = 0x0100, accumulator =  *)
(* index_x = index_y = 0, emulation = TRUE, and the flags accumulator-     *)
(* width = 1, index-width = 1, decimal = 0, irq-disable = 1, carry = 1.    *)
(***************************************************************************)
C1_ResetState ==
    [][resets' = resets + 1 =>
          /\ Regs'.program_counter = ResetVectorInRom
          /\ Regs'.program_bank = 0
          /\ Regs'.stack_pointer = 256
          /\ Regs'.accumulator = 0
          /\ Regs'.index_x = 0
          /\ Regs'.index_y = 0
          /\ Regs'.emulation = TRUE
          /\ Bit(Status', 5) = 1
          /\ Bit(Status', 4) = 1
          /\ Bit(Status', 3) = 0
          /\ Bit(Status', 2) = 1
          /\ Bit(Status', 0) = 1]_vars

\* A second reset, run after a 16-bit load, a jump to bank 0x80, a cleared
\* carry and a switch to native mode, has put every register back.
C1_Witness ==
    /\ resets = 2
    /\ fault = NoFault
    /\ \E i \in 1..Len(log) : log[i].op = "Jump" /\ log[i].address.mode = "AbsoluteLong"
    /\ LastExecuted.op = "LoadAccumulator"
    /\ LastExecuted.address = Immediate16(\h1234)
    /\ Regs.accumulator = 0
    /\ Regs.program_bank = 0
    /\ Regs.program_counter = ResetVectorInRom
    /\ Status = \h35

(***************************************************************************)
(* C2.  End to end: for a ROM whose emulation RESET vector points at the   *)
(* bytes 78 18 A9 34 12 8D 00 21, reset followed by 4 steps completes      *)
(* without a fault, the four executed instructions are                     *)
(* DisableInterruptRequests, ClearCarry, LoadAccumulator(0x1234) with a    *)
(* 16-bit immediate and StoreAccumulator to absolute 0x2100, the           *)
(* screen-display register then holds 0x34, and program_counter is the     *)
(* reset vector plus 8.                                                    *)
(***************************************************************************)
\* The run of the claim: one reset, and the bootstrap bytes at the RESET vector.
BootstrapRun ==
    /\ resets = 1
    /\ ResetVectorInRom >= \h8000
    /\ \A i \in 1..Len(Bootstrap) :
           RomAt(memory.rom, ResetVectorInRom - \h8000 + i - 1) = Bootstrap[i]

\* The claim as stated.  A step that panics in fetch leaves the log as it
\* was, so a fault with fewer than 4 logged instructions is a fault of one of
\* the first 4 steps.
C2_Original ==
    BootstrapRun =>
        /\ Len(log) < 4 => fault = NoFault
        /\ Len(log) >= 4 =>
               SubSeq(log, 1, 4) =
                   <<Implied("DisableInterruptRequests"),
                     Implied("ClearCarry"),
                     WithAddress("LoadAccumulator", Immediate16(\h1234)),
                     WithAddress("StoreAccumulator", Absolute(\h2100))>>
        /\ Len(log) = 4 =>
               /\ memory.hardware_registers["ScreenDisplayRegister"] = \h34
               /\ Regs.program_counter = ResetVectorInRom + 8

\* C2 as amended: the first 3 steps complete without a fault and execute
\* DisableInterruptRequests, ClearCarry and LoadAccumulator(0x34) with an
\* 8-bit immediate (the accumulator-width flag is 1 after reset), which
\* leaves accumulator = 0x34 and program_counter = reset vector + 4; the 4th
\* step ends in UnimplementedOpcode(0x12); StoreAccumulator never executes
\* and the screen-display register still holds 0.
C2_Amended ==
    BootstrapRun =>
        /\ Len(log) < 3 => fault = NoFault
        /\ Len(log) <= 3
        /\ log = SubSeq(<<Implied("DisableInterruptRequests"),
                          Implied("ClearCarry"),
                          WithAddress("LoadAccumulator", Immediate8(\h34))>>,
                        1, Len(log))
        /\ fault \in {NoFault, UnimplementedOpcode(\h12)}
        /\ Len(log) = 3 =>
               /\ Regs.accumulator = \h34
               /\ Regs.program_counter = ResetVectorInRom + 4
        /\ memory.hardware_registers["ScreenDisplayRegister"] = 0

\* The 4th step has ended in the panic on opcode 0x12.
C2_Witness ==
    /\ BootstrapRun
    /\ Len(log) = 3
    /\ fault = UnimplementedOpcode(\h12)

(***************************************************************************)
(* What a step finds at (program_bank, program_counter).                   *)
(***************************************************************************)
\* This step is a tick: it executed an instruction or ended in a panic.
TickStep == resets' = resets /\ harness' = harness /\ (log' # log \/ fault' # fault)

\* The byte k places after the opcode, read before the step.
ByteAtPc(k) == get_byte(memory, Regs.program_bank, (Regs.program_counter + k) % 65536)

\* The opcodes fetch_instruction decodes.
Implemented == {\h18, \h4C, \h5C, \h78, \h8D, \h9C, \hA9, \hC2, \hFB}

C8_Original ==
    [][(TickStep /\ IsOk(ByteAtPc(0)) /\ ByteAtPc(0).value \notin Implemented) =>
          /\ fault'.kind = "UnimplementedOpcode"
          /\ fault'.opcode = ByteAtPc(0).value
          /\ {"program_bank", "program_counter"} \subseteq DOMAIN fault'
          /\ fault'.program_bank = Regs.program_bank
          /\ fault'.program_counter = Regs.program_counter
          /\ core' = core
          /\ memory' = memory
          /\ log' = log]_vars

(***************************************************************************)
(* C9.  Fetch, advance, execute: after a step that executes Jump (0x4C or  *)
(* 0x5C), (program_bank, program_counter) is exactly the operand's         *)
(* resolved (bank, offset); the advance by the instruction size is         *)
(* overwritten, not added to the target.                                   *)
(***************************************************************************)
C9_JumpTarget ==
    [][Executes({"Jump"}) =>
          LET target == ByteAtPc(1).value + 256 * ByteAtPc(2).value
          IN  /\ ByteAtPc(0).value \in {\h4C, \h5C}
              /\ fault' = NoFault
              /\ Regs'.program_counter = target
              /\ Regs'.program_bank =
                     IF ByteAtPc(0).value = \h4C THEN Regs.data_bank ELSE ByteAtPc(3).value]_vars

\* A long jump from bank 0 has landed at $80:8004.
C9_Witness ==
    /\ log # <<>>
    /\ LastExecuted = WithAddress("Jump", AbsoluteLong(\h80, \h8004))
    /\ Len(log) = 1
    /\ resets = 1
    /\ fault = NoFault
    /\ Regs.program_bank = \h80
    /\ Regs.program_counter = \h8004

(***************************************************************************)
(* C10.  For every non-jump instruction, a step that does not fault leaves *)
(* program_counter = old program_counter + size (on the 16-bit counter),   *)
(* where size is 1 for 0x18 / 0x78 / 0xFB, 2 for 0xC2, 3 for 0x8D / 0x9C,  *)
(* and for 0xA9 is 2 when the accumulator-width flag is 1 at fetch and 3   *)
(* when it is 0; the operand shape chosen at fetch (8-bit or 16-bit        *)
(* immediate) is the one used at execution.                                *)
(***************************************************************************)
\* The size the claim gives the opcode at the counter.
ClaimedSize ==
    LET opcode == ByteAtPc(0).value
    IN  CASE opcode \in {\h18, \h78, \hFB} -> 1
          [] opcode = \hC2 -> 2
          [] opcode \in {\h8D, \h9C} -> 3
          [] opcode = \hA9 -> IF Bit(Status, 5) = 1 THEN 2 ELSE 3

NonJump ==
    {"ClearCarry", "DisableInterruptRequests", "ExchangeCarryEmulator", "ResetStatusFlags",
     "LoadAccumulator", "StoreAccumulator", "StoreZero"}

C10_Advance ==
    [][(Executes(NonJump) /\ fault' = NoFault) =>
          /\ ByteAtPc(0).value \in Implemented \ {\h4C, \h5C}
          /\ Regs'.program_counter = (Regs.program_counter + ClaimedSize) % 65536
          /\ Regs'.program_bank = Regs.program_bank
          /\ ByteAtPc(0).value = \hA9 =>
                 /\ log'[Len(log')].address =
                        IF Bit(Status, 5) = 1
                        THEN Immediate8(ByteAtPc(1).value)
                        ELSE Immediate16(ByteAtPc(1).value + 256 * ByteAtPc(2).value)
                 /\ Regs'.accumulator = log'[Len(log')].address.data]_vars

\* With the accumulator-width flag cleared, LDA took a 16-bit immediate and
\* the counter moved by 2 + 3.
C10_Witness ==
    /\ log = <<ResetStatusFlags(\h20), WithAddress("LoadAccumulator", Immediate16(\h1234))>>
    /\ resets = 1
    /\ fault = NoFault
    /\ Regs.accumulator = \h1234
    /\ Regs.program_counter = ResetVectorInRom + 5

(***************************************************************************)
(* C6.  ROM is immutable under every sequence of CPU steps and memory-map  *)
(* operations: no step changes a ROM byte, and every set_byte, and every   *)
(* store instruction, whose target resolves to a ROM offset ends in a      *)
(* WriteProtectionViolation fault and writes nothing.                      *)
(***************************************************************************)
ResolvesToRom(bank, addr) ==
    /\ IsOk(get_memory_access_lorom(bank, addr))
    /\ get_memory_access_lorom(bank, addr).value.kind = "Rom"

\* This step is the call set_byte(b, a, v) recorded in harness'.last.
SetByteStep == harness' # harness /\ harness'.last.op = "set_byte"

C6_RomImmutable ==
    [][/\ memory'.rom = memory.rom
       /\ (SetByteStep /\ ResolvesToRom(harness'.last.bank, harness'.last.addr)) =>
              /\ fault'.kind = "WriteProtectionViolation"
              /\ memory' = memory
       /\ (/\ Executes({"StoreAccumulator", "StoreZero"})
           /\ ResolvesToRom(Regs.data_bank, log'[Len(log')].address.addr)) =>
              /\ fault'.kind = "WriteProtectionViolation"
              /\ memory' = memory]_vars

\* After set_byte wrote a register, the program's STA $8000 was refused and
\* the image still holds the program.
C6_Witness ==
    /\ fault = [kind |-> "WriteProtectionViolation"]
    /\ log = <<WithAddress("LoadAccumulator", Immediate8(\h5A)),
               WithAddress("StoreAccumulator", Absolute(\h8000))>>
    /\ harness.last = [op |-> "set_byte", bank |-> \h80, addr |-> \h2100, value |-> \hA5]
    /\ memory.hardware_registers["ScreenDisplayRegister"] = \hA5
    /\ RomAt(memory.rom, 0) = \hA9

(***************************************************************************)
(* C7.  Bank mirroring: for every bank b in 0x00..0x3F and every address,  *)
(* get_byte(b, addr) and get_byte(b + 0x80, addr) have the same outcome,   *)
(* the same byte or the same fault, in every reachable memory state, and   *)
(* likewise for the pairs 0x40..0x6F / 0xC0..0xEF and 0x70..0x7D /         *)
(* 0xF0..0xFD.                                                             *)
(***************************************************************************)
\* The ends of the address ranges the bank maps tell apart, the registers,
\* and the header window.
MirrorAddrs ==
    {\h0000, \h1FFF, \h2000, \h2100, \h2101, \h2140, \h2143, \h21FF, \h3000, \h4000, \h4200,
     \h420B, \h420C, \h44FF, \h7FFF, \h8000, \h8001, \hFFC0, \hFFFF}

\* The ends and the inside of the three mirrored ranges of banks.
MirrorBanks == {\h00, \h01, \h20, \h3F, \h40, \h55, \h6F, \h70, \h7D}

C7_BankMirroring ==
    \A b \in MirrorBanks, addr \in MirrorAddrs :
        get_byte(memory, b, addr) = get_byte(memory, b + \h80, addr)

\* A register written through bank $80 was read back through bank $00.
C7_Witness ==
    /\ fault = NoFault
    /\ harness.last = [op |-> "get_byte", bank |-> \h00, addr |-> \h2100, result |-> Ok(\h5A)]
    /\ get_byte(memory, \h80, \h2100) = Ok(\h5A)
    /\ get_byte(memory, \h00, \h8000) = get_byte(memory, \h80, \h8000)
    /\ IsOk(get_byte(memory, \h80, \h8000))

(***************************************************************************)
(* C3.  Executing ResetStatusFlags (0xC2) with mask m on processor status  *)
(* s yields s AND (NOT m), for all 256 x 256 pairs (s, m): exactly the     *)
(* bits set in m are cleared and every other status bit is unchanged.      *)
(***************************************************************************)
C3_ResetStatusFlags ==
    [][Executes({"ResetStatusFlags"}) =>
          /\ fault' = NoFault
          /\ Status' \in Byte
          /\ \A i \in 0..7 :
                 Bit(Status', i) = IF Bit(log'[Len(log')].mask, i) = 1 THEN 0 ELSE Bit(Status, i)]_vars

\* REP #$35 on an all-ones status left exactly the other four bits.
C3_Witness ==
    /\ harness = Executing
    /\ log = <<ResetStatusFlags(\h35)>>
    /\ Status = \hCA
    /\ fault = NoFault

C11_Original ==
    harness.phase = "done" =>
        /\ get_flag(Status, harness.flag) = harness.state
        /\ \A i \in 0..7 :
               i # FlagOffset[harness.flag] => Bit(Status, i) = Bit(harness.before, i)

(***************************************************************************)
(* C12.  A step executing ClearCarry (0x18) from any processor status      *)
(* leaves the carry flag (bit 0) equal to 0 and every other status bit     *)
(* unchanged.                                                              *)
(***************************************************************************)
C12_Original ==
    [][Executes({"ClearCarry"}) =>
          /\ Bit(Status', 0) = 0
          /\ \A i \in 1..7 : Bit(Status', i) = Bit(Status, i)]_vars

(***************************************************************************)
(* C13.  A step executing DisableInterruptRequests (0x78) from any         *)
(* processor status, one where a prior ResetStatusFlags cleared bit 2      *)
(* included, leaves the irq-disable flag (bit 2) equal to 1 and every      *)
(* other status bit unchanged.                                             *)
(***************************************************************************)
C13_Original ==
    [][Executes({"DisableInterruptRequests"}) =>
          /\ Bit(Status', 2) = 1
          /\ \A i \in (0..7) \ {2} : Bit(Status', i) = Bit(Status, i)]_vars

(***************************************************************************)
(* C14.  Header decode reproduces every field of a 64-byte header window   *)
(* exactly: title = bytes 0..20, rom_size = byte 23, sram_size = byte 24,  *)
(* creator_id = byte 25, version = byte 27, checksum_complement = byte 28, *)
(* checksum = byte 29, and for both vector sets (native at 0x24..0x2F,     *)
(* emulation at 0x34..0x3F) the six vectors COP, BRK, ABORT, NMI, RESET,   *)
(* IRQ are the consecutive little-endian 16-bit words in that order.       *)
(***************************************************************************)
\* Byte i of the header window, counted from 0.
WindowByte(i) == RomAt(memory.rom, HeaderStart + i)

\* The little-endian word n of the vector set that starts at byte `start`.
WindowWord(start, n) == WindowByte(start + 2 * n) + 256 * WindowByte(start + 2 * n + 1)

VectorsAt(vectors, start) ==
    /\ vectors.cop = WindowWord(start, 0)
    /\ vectors.brk = WindowWord(start, 1)
    /\ vectors.abort = WindowWord(start, 2)
    /\ vectors.nmi = WindowWord(start, 3)
    /\ vectors.reset = WindowWord(start, 4)
    /\ vectors.irq = WindowWord(start, 5)

\* The decode returned a header that holds the fields of the window.
DecodedExactly ==
    /\ fault = NoFault
    /\ "header" \in DOMAIN harness
    /\ harness.header.title = [k \in 1..21 |-> WindowByte(k - 1)]
    /\ harness.header.rom_size = WindowByte(23)
    /\ harness.header.sram_size = WindowByte(24)
    /\ harness.header.creator_id = WindowByte(25)
    /\ harness.header.version = WindowByte(27)
    /\ harness.header.checksum_complement = WindowByte(28)
    /\ harness.header.checksum = WindowByte(29)
    /\ VectorsAt(harness.header.native_interrupts, \h24)
    /\ VectorsAt(harness.header.emulation_interrupts, \h34)

TitleIsText == \A i \in 0..20 : WindowByte(i) < 128

\* As stated: for every window whose mapping-mode byte 21 is 0x20.
C14_Original ==
    (harness.phase = "decoded" /\ WindowByte(21) = \h20) => DecodedExactly

\* Amended: for every window whose mapping-mode byte 21 is 0x20 and whose
\* title is valid text; a window whose title is not valid text ends the
\* decode in an InvalidHeaderEncoding fault and yields no header.
C14_Amended ==
    harness.phase = "decoded" =>
        /\ (WindowByte(21) = \h20 /\ TitleIsText) => DecodedExactly
        /\ ~TitleIsText => (fault.kind = "InvalidHeaderEncoding" /\ "header" \notin DOMAIN harness)

\* A window of seed 5 was decoded: the two RESET vectors are the words at
\* 0x2C and 0x3C, and they differ.
C14_Witness ==
    /\ harness.phase = "decoded"
    /\ fault = NoFault
    /\ WindowByte(21) = \h20
    /\ WindowByte(23) = (5 * 37 + 23 * 13) % 256
    /\ harness.header.title[1] = \h6B
    /\ harness.header.native_interrupts.reset = WindowWord(\h24, 4)
    /\ harness.header.emulation_interrupts.reset = WindowWord(\h34, 4)
    /\ harness.header.native_interrupts.reset # harness.header.emulation_interrupts.reset

(***************************************************************************)
(* C15.  The machine has exactly two states, Reset and Running: reset is   *)
(* performed exactly once, before the first step; every step taken in      *)
(* Running ends in Running or in a fatal fault; there is no Halt state, so *)
(* the run loop never stops except by a fault: in every non-faulted        *)
(* Running state a further step is enabled.                                *)
(***************************************************************************)
\* Where the machine stands: before the reset nothing has run, after it the
\* one reset is done, and only a fault takes the next step away.
RunStates ==
    /\ harness.phase \in {"Reset", "Running"}
    /\ harness.phase = "Reset" => (resets = 0 /\ log = <<>>)
    /\ harness.phase = "Running" => resets = 1
    /\ (harness.phase = "Reset" /\ fault = NoFault) => (ENABLED RunReset /\ ~ENABLED RunTick)
    /\ (harness.phase = "Running" /\ fault = NoFault) => (ENABLED RunTick /\ ~ENABLED RunReset)
    /\ fault # NoFault => ~ENABLED NextRun

\* What a step does to it: the reset leads from Reset to Running, and every
\* other step starts and ends in Running.
RunSteps ==
    /\ resets' # resets => (harness.phase = "Reset" /\ harness'.phase = "Running" /\ fault' = NoFault)
    /\ resets' = resets => (harness.phase = "Running" /\ harness'.phase = "Running")

C15_RunLoop == []RunStates /\ [][RunSteps]_vars

\* The loop of LDA, STA, STZ, JMP has gone round past the end of the log and
\* is back at the reset vector, still running.
C15_Witness ==
    /\ harness.phase = "Running"
    /\ fault = NoFault
    /\ resets = 1
    /\ Len(log) = MaxSteps
    /\ log[4] = WithAddress("Jump", Absolute(\h8000))
    /\ log[MaxSteps] # WithAddress("Jump", Absolute(\h8000))
    /\ Regs.program_counter = \h8000
    /\ memory.hardware_registers["DmaEnableRegister"] = 0

(***************************************************************************)
(* C16.  The low-RAM alias functions: for every bank in 0x00..0x3F (and    *)
(* its mirror 0x80..0xBF) and every offset in 0x0000..0x1FFF,              *)
(* set_byte(bank, offset, v) succeeds without a fault and a later get_byte *)
(* at the same offset through any of those banks returns v.                *)
(***************************************************************************)
LowRamBanks == (\h00..\h3F) \cup (\h80..\hBF)

C16_Original ==
    [][(/\ SetByteStep
        /\ harness'.last.bank \in LowRamBanks
        /\ harness'.last.addr <= \h1FFF) =>
          /\ fault' = NoFault
          /\ \A bank \in {\h00, \h3F, \h80, \hBF} :
                 get_byte(memory', bank, harness'.last.addr) = Ok(harness'.last.value)]_vars

(***************************************************************************)
(* C17.  For every bank b in 0x00..0x3F and offset a in 0x8000..0xFFFF,    *)
(* get_byte(b, a) returns the ROM byte at index b * 0x8000 + a - 0x8000,   *)
(* and get_byte(b + 0x80, a) returns the same byte, whenever that index    *)
(* lies inside the ROM image.                                              *)
(***************************************************************************)
\* The ends of the ROM window, the program, and the header window.
RomWindowAddrs == {\h8000, \h8001, \h8004, \hC000, \hFFBF, \hFFC0, \hFFD5, \hFFFC, \hFFFD, \hFFFF}

C17_LinearRom ==
    \A b \in \h00..\h3F, a \in RomWindowAddrs :
        LET index == b * \h8000 + a - \h8000
        IN  index < RomLen =>
                /\ get_byte(memory, b, a) = Ok(RomAt(memory.rom, index))
                /\ get_byte(memory, b + \h80, a) = Ok(RomAt(memory.rom, index))

\* The program jumped into the second bank and the fetch there read the
\* unprogrammed cell at index 0x8000, not the program at index 0.
C17_Witness ==
    /\ log = <<WithAddress("Jump", AbsoluteLong(\h01, \h8000))>>
    /\ fault = UnimplementedOpcode(RomFill)
    /\ Regs.program_bank = \h01
    /\ get_byte(memory, \h00, \h8000) = Ok(\h5C)
    /\ get_byte(memory, \h81, \h8000) = Ok(RomFill)
    /\ get_byte(memory, \h00, \hFFD5) = Ok(\h20)

(***************************************************************************)
(* C18.  The eight hardware registers (0x2100, 0x2140, 0x2141, 0x2142,     *)
(* 0x2143, 0x4200, 0x420B, 0x420C) are independent one-byte cells that all *)
(* read 0 after construction: set_byte to one register address makes       *)
(* get_byte at that address, through any bank 0x00..0x3F or 0x80..0xBF,    *)
(* return the written value and leaves the other seven cells, and ROM,     *)
(* unchanged.                                                              *)
(***************************************************************************)
C18_Registers ==
    /\ RegisterAddrs = {\h2100, \h2140, \h2141, \h2142, \h2143, \h4200, \h420B, \h420C}
    /\ fault = NoFault
    /\ \A addr \in RegisterAddrs, bank \in (\h00..\h3F) \cup (\h80..\hBF) :
           get_byte(memory, bank, addr) = Ok(harness.cells[addr])
    /\ memory.rom = Cartridge(Bootstrap, \h8000, 0)

\* Two registers hold the two values written to them and a third still
\* reads 0.
C18_Witness ==
    /\ harness.calls = 2
    /\ harness.cells[\h420B] = \h5A
    /\ harness.cells[\h420C] = \hA5
    /\ get_byte(memory, \h80, \h420B) = Ok(\h5A)
    /\ get_byte(memory, \h3F, \h420C) = Ok(\hA5)
    /\ get_byte(memory, \h00, \h4200) = Ok(0)

(***************************************************************************)
(* C19.  StoreAccumulator writes the accumulator's low byte to the         *)
(* resolved address first; it then writes the high byte to address + 1 if  *)
(* and only if the accumulator-width flag is 0 (16-bit mode); when the     *)
(* flag is 1 the byte at address + 1 is not written, and no other memory   *)
(* cell or CPU register is modified.                                       *)
(***************************************************************************)
\* The register cell behind (bank, addr), or "none".
CellAt(bank, addr) ==
    IF /\ IsOk(get_memory_access_lorom(bank, addr))
       /\ get_memory_access_lorom(bank, addr).value.kind = "Register"
    THEN get_memory_access_lorom(bank, addr).value.name
    ELSE "none"

\* The bank an operand names: its own, or the data bank.
BankOf(address) == IF address.mode = "AbsoluteLong" THEN address.bank ELSE Regs.data_bank

C19_StoreAccumulator ==
    [][Executes({"StoreAccumulator"}) =>
          LET address == log'[Len(log')].address
              first == CellAt(BankOf(address), address.addr)
              second == CellAt(BankOf(address), address.addr + 1)
              wide == Bit(Status, 5) = 0
          IN  /\ core' = core
              /\ memory'.rom = memory.rom
              /\ \A n \in RegisterNames :
                     memory'.hardware_registers[n] =
                         IF n = first THEN Regs.accumulator % 256
                         ELSE IF wide /\ first # "none" /\ n = second
                         THEN Regs.accumulator \div 256
                         ELSE memory.hardware_registers[n]
              /\ (fault' = NoFault) <=> (first # "none" /\ (wide => second # "none"))]_vars

\* In 8-bit mode 0x1234 was stored at $2140: the cell holds 0x34 and the
\* cell at $2141 was left alone.
C19_Witness ==
    /\ log = <<WithAddress("StoreAccumulator", Absolute(\h2140))>>
    /\ Bit(Status, 5) = 1
    /\ Regs.accumulator = \h1234
    /\ fault = NoFault
    /\ memory.hardware_registers["ApuIoRegister0"] = \h34
    /\ memory.hardware_registers["ApuIoRegister1"] = 0

(***************************************************************************)
(* C20.  Operand resolution happens at execution time against current      *)
(* registers: an Absolute operand resolves to (data_bank, addr) using the  *)
(* data_bank value at execution, and an AbsoluteLong operand resolves to   *)
(* its own (bank, addr) regardless of data_bank; this holds for Jump,      *)
(* StoreAccumulator and StoreZero alike, so a Jump with an Absolute        *)
(* operand (0x4C) sets program_bank to data_bank.                          *)
(***************************************************************************)
C20_OperandResolution ==
    [][Executes(OperandInstructions) =>
          LET op == log'[Len(log')].op
              address == log'[Len(log')].address
              bank == IF address.mode = "Absolute" THEN Regs.data_bank ELSE address.bank
              value == IF op = "StoreZero" THEN 0 ELSE Regs.accumulator % 256
              written == set_byte(memory, bank, address.addr, value)
          IN  IF op = "Jump"
              THEN /\ Regs'.program_bank = bank
                   /\ Regs'.program_counter = address.addr
                   /\ Regs'.data_bank = Regs.data_bank
                   /\ memory' = memory
                   /\ fault' = NoFault
              ELSE /\ core' = core
                   /\ fault' = written.fault
                   /\ memory' = IF IsOk(written) THEN written.value ELSE memory]_vars

\* A Jump with an Absolute operand took the program bank from the data bank.
C20_Witness ==
    /\ harness = Executing
    /\ log = <<WithAddress("Jump", Absolute(\h8000))>>
    /\ Regs.data_bank = \h01
    /\ Regs.program_bank = \h01
    /\ Regs.program_counter = \h8000
    /\ fault = NoFault

(***************************************************************************)
(* C21.  StoreZero (0x9C) writes exactly one zero byte to the resolved     *)
(* address for both values of the accumulator-width flag; the byte at      *)
(* address + 1, every other memory cell and every CPU register other than  *)
(* program_counter are unchanged.                                          *)
(***************************************************************************)
C21_StoreZero ==
    [][Executes({"StoreZero"}) =>
          LET address == log'[Len(log')].address
              target == CellAt(BankOf(address), address.addr)
          IN  /\ ByteAtPc(0).value = \h9C
              /\ core' = [core EXCEPT !.registers.program_counter = Regs'.program_counter]
              /\ memory'.rom = memory.rom
              /\ \A n \in RegisterNames :
                     memory'.hardware_registers[n] =
                         IF n = target THEN 0 ELSE memory.hardware_registers[n]
              /\ (fault' = NoFault) <=> (target # "none")]_vars

\* In 16-bit mode STZ $2140 cleared the low byte of the word stored there
\* and left the high byte at $2141.
C21_Witness ==
    /\ log # <<>>
    /\ LastExecuted = WithAddress("StoreZero", Absolute(\h2140))
    /\ Bit(Status, 5) = 0
    /\ fault = NoFault
    /\ memory.hardware_registers["ApuIoRegister0"] = 0
    /\ memory.hardware_registers["ApuIoRegister1"] = \h12

(***************************************************************************)
(* C22.  Native-mode switch sequence: starting from the state right after  *)
(* reset, two steps over the bytes 18 FB (ClearCarry then                  *)
(* ExchangeCarryEmulation) leave emulation = false.                        *)
(***************************************************************************)
C22_Original ==
    (/\ resets = 1
     /\ fault = NoFault
     /\ RomAt(memory.rom, ResetVectorInRom - \h8000) = \h18
     /\ RomAt(memory.rom, ResetVectorInRom - \h8000 + 1) = \hFB
     /\ log = <<Implied("ClearCarry"), Implied("ExchangeCarryEmulator")>>) =>
        Regs.emulation = FALSE

(***************************************************************************)
(* C23.  Status-bit invariant: in every state reachable by reset followed  *)
(* by any sequence of steps, the zero, decimal, overflow and negative bits *)
(* (bits 1, 3, 6, 7) of processor_status are 0, and between consecutive    *)
(* steps the status byte only loses bits: no step ever sets a status bit   *)
(* that was clear.                                                         *)
(***************************************************************************)
UnusedBitsClear == \A i \in {1, 3, 6, 7} : Bit(Status, i) = 0

\* A step of the loop leaves no bit set that was clear before it.
OnlyLosesBits ==
    (harness.phase = "Running" /\ harness'.phase = "Running") =>
        \A i \in 0..7 : Bit(Status', i) <= Bit(Status, i)

ExecutedSize == Instruction_size(log'[Len(log')])

\* This step executed a store of the whole 16-bit accumulator that reached
\* its second byte.
WideStoreStep ==
    /\ Executes({"StoreAccumulator"})
    /\ Bit(Status, 5) = 0
    /\ CellAt(BankOf(log'[Len(log')].address), log'[Len(log')].address.addr) # "none"

C24_Original ==
    [][/\ fault'.kind # "ArithmeticOverflow"
       /\ Len(log') = Len(log) + 1 => Regs.program_counter + ExecutedSize <= \hFFFF
       /\ WideStoreStep => log'[Len(log')].address.addr + 1 <= \hFFFF]_vars

(***************************************************************************)
(* C25.  Address resolution is never attempted on an immediate operand in  *)
(* any reachable step: the decoder produces Immediate8 / Immediate16 only  *)
(* for LoadAccumulator, whose execution reads the literal directly, so the *)
(* fatal 'address of immediate' contract violation in raw_address is       *)
(* unreachable for every ROM content.                                      *)
(***************************************************************************)
IsImmediate(instruction) ==
    /\ "address" \in DOMAIN instruction
    /\ instruction.address.mode \in {"Immediate8", "Immediate16"}

C25_NoAddressOfImmediate ==
    /\ fault.kind # "AddressOfImmediate"
    /\ \A i \in 1..Len(log) : IsImmediate(log[i]) <=> log[i].op = "LoadAccumulator"

\* LDA #$7F read its literal and the store after it resolved an address.
C25_Witness ==
    /\ Len(log) = 2
    /\ log[1] = WithAddress("LoadAccumulator", Immediate8(\h7F))
    /\ log[2] = WithAddress("StoreAccumulator", Absolute(\h420B))
    /\ fault = NoFault
    /\ Regs.accumulator = \h7F
    /\ memory.hardware_registers["DmaEnableRegister"] = \h7F

====
